---- MODULE Spec2Model ----
(***************************************************************************)
(* A model of src/js/helpers.js of SAS Powerschool Enhancement Suite:      *)
(* the grade conversions, the grade point average, the final-percent       *)
(* extraction from a course page and the grade store kept in the           *)
(* browser's local storage.                                                *)
(*                                                                         *)
(* JavaScript values are records [t, v].  A finite number n/d is           *)
(* [t |-> "number", v |-> <<n, d>>], in lowest terms; -0, NaN and the      *)
(* infinities are values of their own.                                     *)
(***************************************************************************)
EXTENDS Integers, Sequences, FiniteSets, TLC

VARIABLES
    fn,        \* the pure function under call ("none" in the store's runs)
    arg,       \* its argument
    ret,       \* its return value, once done
    done,      \* whether the call has returned
    storage,   \* browser.storage.local: key -> value, keys present only
    requests,  \* the storage calls issued so far, in issue order
    promises,  \* promises[i]: the promise returned by the i-th helper call
    applied    \* ghost: indices of the set requests applied, in order

vars == <<fn, arg, ret, done, storage, requests, promises, applied>>

pureVars == <<fn, arg, ret, done>>
storeVars == <<storage, requests, promises, applied>>

----------------------------------------------------------------------------
(* JavaScript values *)

Abs(x) == IF x < 0 THEN 0 - x ELSE x

RECURSIVE Gcd(_, _)
Gcd(a, b) == IF b = 0 THEN a ELSE Gcd(b, a % b)

\* The number n/d, d > 0: a finite number other than -0, held in lowest
\* terms so that equal numbers are equal values.
Rat(n, d) ==
    LET g == Gcd(Abs(n), d)
    IN  [t |-> "number", v |-> <<n \div g, d \div g>>]

\* The number of v thousandths.
Num(v) == Rat(v, 1000)
NegZero == [t |-> "-0", v |-> 0]
NaN == [t |-> "NaN", v |-> 0]
Infinity == [t |-> "Infinity", v |-> 0]
NegInfinity == [t |-> "-Infinity", v |-> 0]
Undefined == [t |-> "undefined", v |-> 0]
\* A member inherited from Object.prototype: a function or an object.
Inherited(kind) == [t |-> kind, v |-> 0]

\* The finite numbers: -0 is one of them.
IsFinite(x) == x.t \in {"number", "-0"}
Numerator(x) == IF x.t = "number" THEN x.v[1] ELSE 0
Denominator(x) == IF x.t = "number" THEN x.v[2] ELSE 1
\* The thousandths of a finite number, rounded down.
Milli(x) == (1000 * Numerator(x)) \div Denominator(x)
\* x < y for finite numbers x and y.
Less(x, y) == Numerator(x) * Denominator(y) < Numerator(y) * Denominator(x)

\* Property names every object literal inherits from Object.prototype:
\* its 11 functions, and the accessor __proto__, which reads as an object.
ObjectPrototypeFunctions ==
    {"constructor", "toString", "valueOf", "hasOwnProperty",
     "isPrototypeOf", "propertyIsEnumerable", "toLocaleString",
     "__defineGetter__", "__defineSetter__", "__lookupGetter__",
     "__lookupSetter__"}
ObjectPrototypeObjects == {"__proto__"}
ObjectPrototypeKeys == ObjectPrototypeFunctions \cup ObjectPrototypeObjects

\* key in obj, for an object literal obj with own keys DOMAIN obj.
JsIn(key, obj) == key \in DOMAIN obj \/ key \in ObjectPrototypeKeys

\* obj[key], for an object literal obj.
JsGet(key, obj) ==
    IF key \in DOMAIN obj THEN obj[key]
    ELSE IF key \in ObjectPrototypeFunctions THEN Inherited("function")
    ELSE IF key \in ObjectPrototypeObjects THEN Inherited("object")
    ELSE Undefined

\* a < b for a number b: a function or an object converts to NaN, and every
\* comparison with NaN is false.
JsLess(a, b) == IsFinite(a) /\ IsFinite(b) /\ Less(a, b)

\* a + b: the sum of two finite numbers; a function or an object operand
\* makes it a string concatenation (the text is not kept); NaN otherwise.
JsAdd(a, b) ==
    IF a = NegZero /\ b = NegZero THEN NegZero
    ELSE IF IsFinite(a) /\ IsFinite(b)
         THEN Rat(Numerator(a) * Denominator(b) + Numerator(b) * Denominator(a),
                  Denominator(a) * Denominator(b))
    ELSE IF {a.t, b.t} \cap {"function", "object", "string"} # {}
         THEN [t |-> "string", v |-> 0]
    ELSE NaN

\* a * b: the product of two finite numbers, a zero product negative when
\* one operand alone is negative or -0; NaN when an operand is NaN or the
\* non-numeric string JsAdd makes.
JsMul(a, b) ==
    LET negative(x) == x = NegZero \/ Numerator(x) < 0
        n == Numerator(a) * Numerator(b)
    IN  IF ~(IsFinite(a) /\ IsFinite(b)) THEN NaN
        ELSE IF n = 0 /\ negative(a) # negative(b) THEN NegZero
        ELSE Rat(n, Denominator(a) * Denominator(b))

----------------------------------------------------------------------------
(* Strings.  Course names, grades and user names are strings.  The text     *)
(* that parseFloat, Number and the regular expressions read is a sequence   *)
(* of UTF-16 code units, one element each: a code unit below U+0080 is the  *)
(* string of that one character, and any other is named "U+XXXX", four      *)
(* upper-case hexadecimal digits.                                           *)

StartsWith(s, p) == Len(s) >= Len(p) /\ SubSeq(s, 1, Len(p)) = p

\* The code units of a string of characters below U+0080.
RECURSIVE Chars(_)
Chars(s) ==
    IF s = "" THEN << >>
    ELSE Chars(SubSeq(s, 1, Len(s) - 1)) \o <<SubSeq(s, Len(s), Len(s))>>

\* The string of code units that are all below U+0080.
RECURSIVE Text(_)
Text(cs) == IF cs = << >> THEN "" ELSE Head(cs) \o Text(Tail(cs))

\* p stands in s at index i.
StartsAt(s, p, i) ==
    i + Len(p) - 1 <= Len(s) /\ SubSeq(s, i, i + Len(p) - 1) = p

----------------------------------------------------------------------------
(* IEEE 754 doubles.  DoubleCmp(num, den), for num, den > 0, is the sign of *)
(* double(num/den) - num/den, where double(q) is the double nearest to q    *)
(* (ties to even): the 53 significant bits of q by long division, then      *)
(* the rounding of the remainder.                                           *)

RECURSIVE Normalize(_, _)
Normalize(num, den) ==
    IF num >= 2 * den THEN Normalize(num, 2 * den)
    ELSE IF num < den THEN Normalize(2 * num, den)
    ELSE <<num, den>>

RECURSIVE MantissaRound(_, _, _, _)
MantissaRound(r, den, lastBit, bitsLeft) ==
    IF bitsLeft = 0
    THEN IF r = 0 THEN 0
         ELSE IF 2 * r < den THEN -1
         ELSE IF 2 * r > den THEN 1
         ELSE IF lastBit = 0 THEN -1 ELSE 1
    ELSE IF 2 * r >= den
         THEN MantissaRound(2 * r - den, den, 1, bitsLeft - 1)
         ELSE MantissaRound(2 * r, den, 0, bitsLeft - 1)

DoubleCmp(num, den) ==
    LET n == Normalize(num, den)
    IN  MantissaRound(n[1] - n[2], n[2], 1, 52)

\* Number.prototype.toFixed(2) of the double nearest to num/den, num >= 0,
\* den > 0, as the count n of hundredths it prints: the n for which n/100 is
\* nearest to the double, the larger n when two are equally near.
ToFixed2Hundredths(num, den) ==
    LET whole == num \div den
        n0 == (100 * (num % den)) \div den
        rem == 100 * (num % den) - n0 * den
    IN  100 * whole
          + (IF 2 * rem > den THEN n0 + 1
             ELSE IF 2 * rem < den THEN n0
             ELSE IF DoubleCmp(num, den) >= 0 THEN n0 + 1 ELSE n0)

TwoDigits(n) == IF n < 10 THEN "0" \o ToString(n) ELSE ToString(n)

\* The string toFixed(2) prints for n hundredths, n >= 0.
FixedString(n) == ToString(n \div 100) \o "." \o TwoDigits(n % 100)

----------------------------------------------------------------------------
(* Grade tables and conversions *)

grade_gpa ==
    [g \in {"A+", "A", "B+", "B", "C+", "C", "D+", "D", "F"} |->
        CASE g = "A+" -> Num(4500) [] g = "A" -> Num(4000)
          [] g = "B+" -> Num(3500) [] g = "B" -> Num(3000)
          [] g = "C+" -> Num(2500) [] g = "C" -> Num(2000)
          [] g = "D+" -> Num(1500) [] g = "D" -> Num(1000)
          [] g = "F" -> Num(0)]

gradeToGPA(grade) ==
    IF JsIn(grade, grade_gpa) THEN JsGet(grade, grade_gpa) ELSE Num(-1000)

grade_fp ==
    [g \in {"A+", "A", "B+", "B", "C+", "C", "D+", "D", "F"} |->
        CASE g = "A+" -> Num(90000) [] g = "A" -> Num(80000)
          [] g = "B+" -> Num(70000) [] g = "B" -> Num(60000)
          [] g = "C+" -> Num(50000) [] g = "C" -> Num(40000)
          [] g = "D+" -> Num(30000) [] g = "D" -> Num(20000)
          [] g = "F" -> Num(10000)]

gradeToFP(grade) ==
    IF JsIn(grade, grade_fp) THEN JsGet(grade, grade_fp) ELSE Num(-1000)

avaliableGrades == <<"A+", "A", "B+", "B", "C+", "C", "D+", "D", "F">>

----------------------------------------------------------------------------
(* parseFloat and Number.  The value of a numeric literal is the number it  *)
(* writes, exactly; the integers of the model are below 2^31, so literals   *)
(* whose numerator or denominator is not are outside it.                    *)

Digits == {"0", "1", "2", "3", "4", "5", "6", "7", "8", "9"}
HexDigits ==
    Digits \cup {"a", "b", "c", "d", "e", "f", "A", "B", "C", "D", "E", "F"}

\* StrWhiteSpaceChar, the white space parseFloat and Number skip: tab, line
\* feed, vertical tab (written as itself), form feed, carriage return,
\* space, no-break space, the other space separators, the line and
\* paragraph separators and the byte order mark.
WhiteSpace ==
    {"\t", "\n", "", "\f", "\r", " ", "U+00A0", "U+1680",
     "U+2000", "U+2001", "U+2002", "U+2003", "U+2004", "U+2005", "U+2006",
     "U+2007", "U+2008", "U+2009", "U+200A", "U+2028", "U+2029", "U+202F",
     "U+205F", "U+3000", "U+FEFF"}

DigitVal(c) ==
    CASE c = "0" -> 0 [] c = "1" -> 1 [] c = "2" -> 2 [] c = "3" -> 3
      [] c = "4" -> 4 [] c = "5" -> 5 [] c = "6" -> 6 [] c = "7" -> 7
      [] c = "8" -> 8 [] c = "9" -> 9
      [] c \in {"a", "A"} -> 10 [] c \in {"b", "B"} -> 11
      [] c \in {"c", "C"} -> 12 [] c \in {"d", "D"} -> 13
      [] c \in {"e", "E"} -> 14 [] c \in {"f", "F"} -> 15

\* The first index >= i of s that holds no white space (Len(s) + 1 if none).
RECURSIVE SkipSpaces(_, _)
SkipSpaces(s, i) ==
    IF i <= Len(s) /\ s[i] \in WhiteSpace THEN SkipSpaces(s, i + 1) ELSE i

\* The first index >= i of s that holds no digit.
RECURSIVE DigitsEnd(_, _)
DigitsEnd(s, i) ==
    IF i <= Len(s) /\ s[i] \in Digits THEN DigitsEnd(s, i + 1) ELSE i

\* The value of the digits d in the given radix.
RECURSIVE IntOf(_, _)
IntOf(d, radix) ==
    IF d = << >> THEN 0
    ELSE radix * IntOf(SubSeq(d, 1, Len(d) - 1), radix) + DigitVal(d[Len(d)])

RECURSIVE Pow10(_)
Pow10(k) == IF k = 0 THEN 1 ELSE 10 * Pow10(k - 1)

\* The number a decimal literal writes: its digits, point dropped, are
\* mantissa, and scale counts the digits after the point less the exponent.
DecimalValue(neg, mantissa, scale) ==
    IF mantissa = 0 THEN (IF neg THEN NegZero ELSE Rat(0, 1))
    ELSE IF scale >= 0
         THEN Rat(IF neg THEN 0 - mantissa ELSE mantissa, Pow10(scale))
    ELSE Rat((IF neg THEN 0 - mantissa ELSE mantissa) * Pow10(0 - scale), 1)

\* The exponent part at index c, after a mantissa: e or E, a sign or none,
\* digits from index f to before index g.  With no digit there the literal
\* ends before the e.
ScanExponent(s, c, f, g, neg, mantissa, decimals) ==
    IF c <= Len(s) /\ s[c] \in {"e", "E"} /\ g > f
    THEN [ok |-> TRUE, end |-> g,
          val |-> DecimalValue(neg, mantissa,
                     IF s[c + 1] = "-"
                     THEN decimals + IntOf(SubSeq(s, f, g - 1), 10)
                     ELSE decimals - IntOf(SubSeq(s, f, g - 1), 10))]
    ELSE [ok |-> TRUE, end |-> c, val |-> DecimalValue(neg, mantissa, decimals)]

\* The first digit of an exponent part whose e stands at index c.
ExponentStart(s, c) ==
    IF c + 1 <= Len(s) /\ s[c + 1] \in {"+", "-"} THEN c + 2 ELSE c + 1

\* The digits from index a to before index b, then, when a point stands at
\* b, the digits after it to before index c (c = b with no point).  "5." is
\* 5, ".5" is 0.5, "." is no number.
ScanMantissa(s, a, b, c, neg) ==
    IF c - a <= (IF c > b THEN 1 ELSE 0)
    THEN [ok |-> FALSE, end |-> a, val |-> NaN]
    ELSE ScanExponent(s, c, ExponentStart(s, c),
                      DigitsEnd(s, ExponentStart(s, c)), neg,
                      IntOf(SubSeq(s, a, b - 1) \o SubSeq(s, b + 1, c - 1), 10),
                      IF c > b THEN c - b - 1 ELSE 0)

\* The index after the digits at index b and a point and digits after them.
FractionEnd(s, b) ==
    IF b <= Len(s) /\ s[b] = "." THEN DigitsEnd(s, b + 1) ELSE b

\* An unsigned literal at index a: Infinity, or digits with a point and an
\* exponent part.
ScanUnsigned(s, a, neg) ==
    IF StartsAt(s, <<"I", "n", "f", "i", "n", "i", "t", "y">>, a)
    THEN [ok |-> TRUE, end |-> a + 8,
          val |-> IF neg THEN NegInfinity ELSE Infinity]
    ELSE ScanMantissa(s, a, DigitsEnd(s, a), FractionEnd(s, DigitsEnd(s, a)), neg)

\* The longest StrDecimalLiteral of s that starts at index i:
\* [ok, val, end (the index after it)].
ScanDecimal(s, i) ==
    IF i <= Len(s) /\ s[i] \in {"+", "-"}
    THEN ScanUnsigned(s, i + 1, s[i] = "-")
    ELSE ScanUnsigned(s, i, FALSE)

\* parseFloat(s): leading white space skipped, then the longest numeric
\* prefix; NaN when there is none.
ParseFloat(s) ==
    LET d == ScanDecimal(s, SkipSpaces(s, 1))
    IN  IF d.ok THEN d.val ELSE NaN

RECURSIVE TrimEnd(_)
TrimEnd(s) ==
    IF s # << >> /\ s[Len(s)] \in WhiteSpace
    THEN TrimEnd(SubSeq(s, 1, Len(s) - 1)) ELSE s

\* The value of the whole of t as a 0x, 0o or 0b literal: NaN unless digits
\* of the radix, and at least one, follow the prefix.
RadixLiteral(t, digits, radix) ==
    LET d == SubSeq(t, 3, Len(t))
    IN  IF d # << >> /\ \A k \in DOMAIN d : d[k] \in digits
        THEN Rat(IntOf(d, radix), 1) ELSE NaN

\* Number(s): white space trimmed at both ends; the empty string is 0; the
\* whole of the rest must be one numeric literal, decimal or, with no sign,
\* hexadecimal, octal or binary.
StringToNumber(s) ==
    LET t == TrimEnd(SubSeq(s, SkipSpaces(s, 1), Len(s)))
        d == ScanDecimal(t, 1)
        prefix == IF Len(t) >= 2 /\ t[1] = "0" THEN t[2] ELSE ""
    IN  IF t = << >> THEN Rat(0, 1)
        ELSE IF prefix \in {"x", "X"} THEN RadixLiteral(t, HexDigits, 16)
        ELSE IF prefix \in {"o", "O"}
             THEN RadixLiteral(t, {"0", "1", "2", "3", "4", "5", "6", "7"}, 8)
        ELSE IF prefix \in {"b", "B"} THEN RadixLiteral(t, {"0", "1"}, 2)
        ELSE IF d.ok /\ d.end = Len(t) + 1 THEN d.val ELSE NaN

\* isNaN(x) for a string x or undefined.
IsNaN(x) ==
    IF x.t = "undefined" THEN TRUE ELSE StringToNumber(x.v).t = "NaN"

Str(s) == [t |-> "string", v |-> s]

----------------------------------------------------------------------------
(* fpToGrade *)

\* The band table, in the insertion order of its keys.
fprange ==
    << [key |-> "85-90", lo |-> 85, hi |-> 90, val |-> "A+"],
       [key |-> "75-85", lo |-> 75, hi |-> 85, val |-> "A"],
       [key |-> "65-75", lo |-> 65, hi |-> 75, val |-> "B+"],
       [key |-> "55-65", lo |-> 55, hi |-> 65, val |-> "B"],
       [key |-> "45-55", lo |-> 45, hi |-> 55, val |-> "C+"],
       [key |-> "35-45", lo |-> 35, hi |-> 45, val |-> "C"],
       [key |-> "25-35", lo |-> 25, hi |-> 35, val |-> "D+"],
       [key |-> "15-25", lo |-> 15, hi |-> 25, val |-> "D"],
       [key |-> "0-15", lo |-> 0, hi |-> 15, val |-> "F"] >>

\* get-key-range(table, num): the value of the first key "lo-hi" of the
\* table with lo <= num < hi; undefined when there is none, as for NaN and
\* the infinities.
RECURSIVE getKeyRangeFrom(_, _, _)
getKeyRangeFrom(table, num, i) ==
    IF i > Len(table) \/ ~IsFinite(num) THEN Undefined
    ELSE IF /\ table[i].lo * Denominator(num) <= Numerator(num)
            /\ Numerator(num) < table[i].hi * Denominator(num)
         THEN Str(table[i].val)
    ELSE getKeyRangeFrom(table, num, i + 1)

getKeyRange(table, num) == getKeyRangeFrom(table, num, 1)

\* x.toFixed(2) for a number x (the double nearest to it).
toFixed2(x) ==
    IF ~IsFinite(x) THEN x.t
    ELSE IF Numerator(x) < 0
         THEN "-" \o FixedString(ToFixed2Hundredths(0 - Numerator(x),
                                                    Denominator(x)))
    ELSE FixedString(ToFixed2Hundredths(Numerator(x), Denominator(x)))

\* fpToGrade without its rounding.
fpToGrade_unrounded(finalPercent) ==
    getKeyRange(fprange, ParseFloat(finalPercent))

fpToGrade(finalPercent) ==
    getKeyRange(fprange,
                ParseFloat(Chars(toFixed2(ParseFloat(finalPercent)))))

----------------------------------------------------------------------------
(* Grade point average *)

double_effect_courses == {"English 10/American History", "English 9/World History"}

calculate_credit_hours(course_name) ==
    IF course_name \in double_effect_courses THEN Num(2000)
    ELSE IF StartsWith(course_name, "I Service: ") \/ StartsWith(course_name, "IS: ")
         THEN Num(500)
    ELSE Num(1000)

course_boost(course_name, grade) ==
    IF JsLess(gradeToGPA(grade), Num(1800)) THEN Num(0)
    ELSE IF StartsWith(course_name, "AP ") \/ StartsWith(course_name, "AT ")
         THEN Num(500)
    ELSE Num(0)

\* The loop of calculate_gpa from index i on, with the totals so far:
\* <<courses_with_grades, sum>> when it ends.
RECURSIVE calculate_gpa_loop(_, _, _, _)
calculate_gpa_loop(courses, i, courses_with_grades, sum) ==
    IF i > Len(courses) THEN <<courses_with_grades, sum>>
    ELSE IF gradeToGPA(courses[i].grade) # Num(-1000)
         THEN LET multiplier == calculate_credit_hours(courses[i].name)
                  term == JsMul(multiplier,
                                JsAdd(gradeToGPA(courses[i].grade),
                                      course_boost(courses[i].name, courses[i].grade)))
              IN  calculate_gpa_loop(courses, i + 1,
                                     JsAdd(courses_with_grades, multiplier),
                                     JsAdd(sum, term))
    ELSE calculate_gpa_loop(courses, i + 1, courses_with_grades, sum)

calculate_gpa(courses) ==
    LET totals == calculate_gpa_loop(courses, 1, Num(0), Num(0))
        courses_with_grades == totals[1]
        sum == totals[2]
    IN  IF courses_with_grades = Num(0) THEN "0.00"
        ELSE IF ~IsFinite(sum) THEN "NaN"
        ELSE FixedString(ToFixed2Hundredths(
                 Numerator(sum) * Denominator(courses_with_grades),
                 Denominator(sum) * Numerator(courses_with_grades)))

----------------------------------------------------------------------------
(* The store's state after construction: nothing stored, nothing called. *)

StoreInit ==
    /\ storage = << >>
    /\ requests = << >>
    /\ promises = << >>
    /\ applied = << >>

PureIdle == fn = "none" /\ arg = << >> /\ ret = Undefined /\ done = FALSE

----------------------------------------------------------------------------
(* Calls of the grade functions: Init draws the call, an action applies it. *)

MaxCourses == 3

CanonicalGrades == {"A+", "A", "B+", "B", "C+", "C", "D+", "D", "F"}

GradeInputs ==
    CanonicalGrades \cup
    {"", "a+", "A++", "E", " A", "A ", "constructor", "toString", "__proto__",
     "__defineGetter__", "__lookupSetter__"}

NameInputs ==
    {"Algebra I", "AP Calc", "AT Math", "APUSH", "English 10/American History",
     "English 9/World History", "IS: Biology", "I Service: Club", "IS:Art"}

GpaNames == {"Algebra I", "AP Calc", "English 9/World History", "IS: Biology"}
GpaGrades == {"A+", "A", "B", "C", "D+", "F", "", "constructor"}

BoundedSeq(S, n) == UNION {[1..k -> S] : k \in 0..n}

CourseInputs == [name : GpaNames, grade : GpaGrades]

InitGrades ==
    /\ StoreInit
    /\ ret = Undefined
    /\ done = FALSE
    /\ \/ fn \in {"gradeToGPA", "gradeToFP"} /\ arg \in GradeInputs
       \/ fn = "calculate_credit_hours" /\ arg \in NameInputs
       \/ fn = "course_boost" /\ arg \in NameInputs \X GradeInputs
       \/ fn = "calculate_gpa" /\ arg \in BoundedSeq(CourseInputs, MaxCourses)

Return(value) ==
    /\ ~done
    /\ ret' = value
    /\ done' = TRUE
    /\ UNCHANGED <<fn, arg, storeVars>>

CallGradeToGPA == fn = "gradeToGPA" /\ Return(gradeToGPA(arg))
CallGradeToFP == fn = "gradeToFP" /\ Return(gradeToFP(arg))
CallCalculateCreditHours ==
    fn = "calculate_credit_hours" /\ Return(calculate_credit_hours(arg))
CallCourseBoost == fn = "course_boost" /\ Return(course_boost(arg[1], arg[2]))
CallCalculateGpa == fn = "calculate_gpa" /\ Return(Str(calculate_gpa(arg)))

NextGrades ==
    \/ CallGradeToGPA
    \/ CallGradeToFP
    \/ CallCalculateCreditHours
    \/ CallCourseBoost
    \/ CallCalculateGpa

SpecGrades == InitGrades /\ [][NextGrades]_vars

----------------------------------------------------------------------------
(* Calls of fpToGrade *)

MaxDelta == 6

ThreeDigits(n) ==
    IF n < 10 THEN "00" \o ToString(n)
    ELSE IF n < 100 THEN "0" \o ToString(n) ELSE ToString(n)

\* The decimal text of k thousandths, three digits after the point.
FpString(k) ==
    LET m == IF k < 0 THEN 0 - k ELSE k
    IN  (IF k < 0 THEN "-" ELSE "") \o ToString(m \div 1000) \o "."
            \o ThreeDigits(m % 1000)

FpCentres == {0, 7, 15, 25, 35, 42, 45, 55, 65, 75, 85, 87, 90, 100}
FpMillis == {1000 * c + d : c \in FpCentres, d \in (0 - MaxDelta)..MaxDelta}
FpInputs ==
    {Chars(FpString(k)) : k \in FpMillis}
    \cup {Chars(s) : s \in {"87", "42", "15", "", "abc", " 64.999", "84.9951",
                             "84.9949", "849951e-4", "1e3", "5e-1", ".85E2",
                             "Infinity", "-Infinity", "-0.001", "-0", "0x10",
                             "90", "89.996", "1e", "7.e1x"}}
    \cup {<<"U+00A0", "U+3000">> \o Chars("87"), <<"U+0085">> \o Chars("87")}

InitFp ==
    /\ StoreInit
    /\ ret = Undefined
    /\ done = FALSE
    /\ fn = "fpToGrade"
    /\ arg \in FpInputs

CallFpToGrade == fn = "fpToGrade" /\ Return(fpToGrade(arg))

NextFp == CallFpToGrade

SpecFp == InitFp /\ [][NextFp]_vars

----------------------------------------------------------------------------
(* extractFinalPercent *)

\* The characters the . of a regular expression does not match.
LineTerminators == {"\n", "\r", "U+2028", "U+2029"}

\* The first index >= i of s where p starts, 0 when there is none.
RECURSIVE IndexOfFrom(_, _, _)
IndexOfFrom(s, p, i) ==
    IF i + Len(p) - 1 > Len(s) THEN 0
    ELSE IF StartsAt(s, p, i) THEN i
    ELSE IndexOfFrom(s, p, i + 1)

\* The last index of s where the character c stands, 0 when there is none.
RECURSIVE LastIndexOf(_, _, _)
LastIndexOf(s, c, i) ==
    IF i = 0 THEN 0
    ELSE IF s[i] = c THEN i
    ELSE LastIndexOf(s, c, i - 1)

\* The first index >= i of s that holds a line terminator (Len(s) + 1 if none).
RECURSIVE LineEnd(_, _)
LineEnd(s, i) ==
    IF i > Len(s) \/ s[i] \in LineTerminators THEN i ELSE LineEnd(s, i + 1)

\* html.match(/(?=document\.write).*/g): every match from index i on; each
\* starts at a "document.write" and runs to the end of its line, and the
\* search goes on after it.  The empty sequence stands for null.
RECURSIVE MatchDocumentWrite(_, _)
MatchDocumentWrite(html, i) ==
    LET start == IndexOfFrom(html, Chars("document.write"), i)
        end == LineEnd(html, start)
    IN  IF start = 0 THEN << >>
        ELSE <<SubSeq(html, start, end - 1)>> \o MatchDocumentWrite(html, end)

\* /\[.*\]/g.exec(s) for a string s of one line: the match from the first
\* "[" to the last "]" after it; [found |-> FALSE] stands for null.
ExecBrackets(s) ==
    LET open == IndexOfFrom(s, <<"[">>, 1)
        close == LastIndexOf(s, "]", Len(s))
    IN  IF open > 0 /\ close > open
        THEN [found |-> TRUE, text |-> SubSeq(s, open, close)]
        ELSE [found |-> FALSE, text |-> << >>]

\* s.split(sep) for a separator of one character.
RECURSIVE Split(_, _)
Split(s, sep) ==
    LET i == IndexOfFrom(s, <<sep>>, 1)
    IN  IF i = 0 THEN <<s>>
        ELSE <<SubSeq(s, 1, i - 1)>> \o Split(SubSeq(s, i + 1, Len(s)), sep)

\* Math.max(x, y) for numbers x and y: NaN when either is, and 0 is larger
\* than -0.
MathMax(x, y) ==
    IF x.t = "NaN" \/ y.t = "NaN" THEN NaN
    ELSE IF x.t = "Infinity" \/ y.t = "Infinity" THEN Infinity
    ELSE IF x.t = "-Infinity" THEN y
    ELSE IF y.t = "-Infinity" THEN x
    ELSE IF Less(x, y) THEN y
    ELSE IF Less(y, x) THEN x
    ELSE IF x = NegZero THEN y ELSE x

\* isNaN(token) ? -Infinity : parseFloat(token)
TokenValue(token) ==
    IF IsNaN(token) THEN NegInfinity ELSE ParseFloat(token.v)

\* temp[i] of an array: undefined outside it.
ArrayGet(temp, i) == IF i \in 1..Len(temp) THEN Str(temp[i]) ELSE Undefined

extractFinalPercent(html) ==
    LET matches == MatchDocumentWrite(html, 1)
        \* exec turns the missing second match, undefined, into "undefined"
        second == IF Len(matches) >= 2 THEN matches[2] ELSE Chars("undefined")
        found == ExecBrackets(second)
        current_string == SubSeq(found.text, 2, Len(found.text) - 1)
        temp == Split(current_string, ";")
        number == MathMax(TokenValue(ArrayGet(temp, Len(temp) - 1)),
                          TokenValue(ArrayGet(temp, Len(temp))))
    IN  IF matches = << >> \/ ~found.found THEN Undefined  \* caught TypeError
        ELSE IF number = NegInfinity THEN Undefined
        ELSE number

MaxTokLen == 2
MaxTokens == 2

TokenAlphabet == {"8", "5", ".", "-", " ", "e", "a", "U+00A0"}

RECURSIVE StringsOver(_, _)
StringsOver(alphabet, n) ==
    IF n = 0 THEN {<< >>}
    ELSE LET shorter == StringsOver(alphabet, n - 1)
         IN  shorter \cup {<<c>> \o s : c \in alphabet, s \in shorter}

Tokens ==
    StringsOver(TokenAlphabet, MaxTokLen)
    \cup {Chars(s) : s \in {"Infinity", "-Infinity", "1e3", "5e-1", "0x10",
                             "0b2", "85.5555", "-0", "\f85"}}
    \cup {<<"U+2003">> \o Chars("85") \o <<"U+FEFF">>, Chars("85") \o <<"U+0085">>}

RECURSIVE Join(_, _)
Join(ts, sep) ==
    IF Len(ts) = 0 THEN << >>
    ELSE IF Len(ts) = 1 THEN ts[1]
    ELSE ts[1] \o <<sep>> \o Join(Tail(ts), sep)

TokenLists == {Join(ts, ";") : ts \in BoundedSeq(Tokens, MaxTokens) \ {<< >>}}

PageHead == Chars("<script>document.write('<h1>')</script>\n<script>document.write(")
PageTail == Chars(")</script>\n</html>")

\* A course page whose second document.write line carries body.
Page(body) == PageHead \o body \o PageTail

HtmlInputs ==
    {Page(<<"[">> \o l \o <<"]">>) : l \in TokenLists}
    \cup {Page(Chars("[1;2;") \o l \o <<"]">>) : l \in TokenLists}
    \cup {Page(Chars(b)) : b \in {"", "[85;90", "85;90]", "]85;90[",
                                  "[0;70;85;90]", "[a;85;90] + x[0]"}}
    \cup {Chars(h) : h \in
            {"", "<html></html>",
             "<script>document.write([85;90])</script>",
             "document.write('a') document.write([85;90])",
             "document.write(1)\ndocument.write(2)\ndocument.write([85;90])",
             "document.write(1)\rdocument.write([7;90.5])\n"}}
    \cup {Chars("document.write(1)") \o <<sep>> \o Chars("document.write([85;90])")
            : sep \in {"U+2028", "U+2029", "U+0085", "\f"}}

InitExtract ==
    /\ StoreInit
    /\ ret = Undefined
    /\ done = FALSE
    /\ fn = "extractFinalPercent"
    /\ arg \in HtmlInputs

CallExtractFinalPercent ==
    fn = "extractFinalPercent" /\ Return(extractFinalPercent(arg))

NextExtract == CallExtractFinalPercent

SpecExtract == InitExtract /\ [][NextExtract]_vars

----------------------------------------------------------------------------
(* The grade store *)

\* models/Course and models/Assignment: an instance and its plain object
\* carry the same fields; class tells them apart.
Assignment(name, score, order) ==
    [class |-> "Assignment", name |-> name, score |-> score, order |-> order,
     statuses |-> << >>]

AssignmentToObject(a) == [a EXCEPT !.class = "Object"]

Course(name, link, grade, finalPercent, assignments) ==
    [class |-> "Course", name |-> name, link |-> link, grade |-> grade,
     finalPercent |-> finalPercent, assignments |-> assignments]

CourseToObject(c) ==
    [class |-> "Object", name |-> c.name, link |-> c.link, grade |-> c.grade,
     finalPercent |-> c.finalPercent,
     assignments |-> [i \in 1..Len(c.assignments) |->
                        AssignmentToObject(c.assignments[i])]]

\* A key that leaves the username out.
UserDataKey_shared(username) == "USERDATA_"

UserDataKey(username) == "USERDATA_" \o username

\* The loop of saveGradesLocally: course_list.
SerializeCourses(courses) ==
    [i \in 1..Len(courses) |-> CourseToObject(courses[i])]

\* user_data without its most_recent_user.
user_data_no_recent(username, courses) ==
    [k \in {UserDataKey(username)} |-> [courses |-> SerializeCourses(courses)]]

\* user_data as saveGradesLocally hands it to browser.storage.local.set.
user_data(username, courses) ==
    [k \in {UserDataKey(username), "most_recent_user"} |->
        IF k = "most_recent_user" THEN username
        ELSE [courses |-> SerializeCourses(courses)]]

\* browser.storage.local.set(items): each key of items replaces that key's
\* value; the other keys stay.
StorageSet(store, items) ==
    [k \in DOMAIN store \cup DOMAIN items |->
        IF k \in DOMAIN items THEN items[k] ELSE store[k]]

\* browser.storage.local.get(key): an object with the key, if stored.
StorageGet(store, key) == [k \in {key} \cap DOMAIN store |-> store[k]]

Request(op, call, key, data) ==
    [op |-> op, call |-> call, key |-> key, data |-> data, state |-> "pending",
     result |-> << >>]

Promise(f, username, courses, state, value) ==
    [fn |-> f, username |-> username, courses |-> courses, state |-> state,
     value |-> value]

Error(name) == [t |-> name, v |-> 0]

\* The rest of getSavedGrades once the awaited get has returned result:
\* the read of the undeclared name output throws a ReferenceError in this
\* strict-mode module, which rejects the promise; lines 190-195 never run.
getSavedGrades_resume(username, result) ==
    [state |-> "rejected", value |-> Error("ReferenceError")]

MaxCalls == 3

Users == {"alice", "bob"}

Essay == Assignment("Essay", "9/10", 0)
Quiz == Assignment("Quiz", "", 1)
Algebra == Course("Algebra I", "scores.html?frn=1", "A", Num(87000), <<Essay, Quiz>>)
Biology == Course("AP Biology", "scores.html?frn=2", "", Undefined, << >>)

CourseLists == { << >>, <<Biology>>, <<Algebra, Biology>> }

location_href == "https://powerschool.sas.edu.sg/guardian/home.html?lang=en"

InitStore == StoreInit /\ PureIdle

saveGradesLocally(username, courses) ==
    /\ Len(promises) < MaxCalls
    /\ requests' = Append(requests,
            Request("set", Len(promises) + 1, "", user_data(username, courses)))
    \* nothing is awaited: the promise is fulfilled when the body returns
    /\ promises' = Append(promises,
            Promise("saveGradesLocally", username, courses, "fulfilled", Undefined))
    /\ UNCHANGED <<storage, applied, pureVars>>

getSavedGrades(username) ==
    /\ Len(promises) < MaxCalls
    /\ requests' = Append(requests,
            Request("get", Len(promises) + 1, UserDataKey(username), << >>))
    /\ promises' = Append(promises,
            Promise("getSavedGrades", username, << >>, "pending", Undefined))
    /\ UNCHANGED <<storage, applied, pureVars>>

\* href = url || window.location.href.split("?")[0]; "" stands for a url
\* not given.
analytics_href(url) ==
    IF url # "" THEN url ELSE Text(Split(Chars(location_href), "?")[1])

analytics_message(action_input, url) ==
    /\ Len(promises) < MaxCalls
    /\ requests' = Append(requests,
            Request("sendMessage", Len(promises) + 1, "",
                    [action |-> "analytics_send",
                     args |-> [url |-> analytics_href(url), action |-> action_input]]))
    /\ promises' = Append(promises,
            Promise("analytics_message", "", << >>, "fulfilled", Undefined))
    /\ UNCHANGED <<storage, applied, pureVars>>

Pending(r, op) ==
    r \in DOMAIN requests /\ requests[r].op = op /\ requests[r].state = "pending"

\* The storage applies a set call.
StorageSetApply(r) ==
    /\ Pending(r, "set")
    /\ storage' = StorageSet(storage, requests[r].data)
    /\ requests' = [requests EXCEPT ![r].state = "done"]
    /\ applied' = Append(applied, r)
    /\ UNCHANGED <<promises, pureVars>>

\* The storage fails a set call: the promise set returned rejects, unseen.
StorageSetFail(r) ==
    /\ Pending(r, "set")
    /\ requests' = [requests EXCEPT ![r].state = "failed"]
    /\ UNCHANGED <<storage, promises, applied, pureVars>>

\* The storage answers a get call and getSavedGrades runs on from its await.
StorageGetResolve(r) ==
    /\ Pending(r, "get")
    /\ LET result == StorageGet(storage, requests[r].key)
           call == requests[r].call
           settled == getSavedGrades_resume(promises[call].username, result)
       IN  /\ requests' = [requests EXCEPT ![r].state = "done", ![r].result = result]
           /\ promises' = [promises EXCEPT ![call].state = settled.state,
                                           ![call].value = settled.value]
    /\ UNCHANGED <<storage, applied, pureVars>>

\* The storage fails a get call: the await throws, the promise rejects.
StorageGetFail(r) ==
    /\ Pending(r, "get")
    /\ requests' = [requests EXCEPT ![r].state = "failed"]
    /\ promises' = [promises EXCEPT ![requests[r].call].state = "rejected",
                                    ![requests[r].call].value = Error("StorageError")]
    /\ UNCHANGED <<storage, applied, pureVars>>

\* The message is delivered, or is not: nobody holds sendMessage's promise.
SendMessageSettle(r) ==
    /\ Pending(r, "sendMessage")
    /\ \E outcome \in {"done", "failed"} :
          requests' = [requests EXCEPT ![r].state = outcome]
    /\ UNCHANGED <<storage, promises, applied, pureVars>>

NextStore ==
    \/ \E u \in Users, cs \in CourseLists : saveGradesLocally(u, cs)
    \/ \E u \in Users : getSavedGrades(u)
    \/ \E url \in {"", "https://example.org/page"} : analytics_message("Opened", url)
    \/ \E r \in 1..MaxCalls : StorageSetApply(r)
    \/ \E r \in 1..MaxCalls : StorageSetFail(r)
    \/ \E r \in 1..MaxCalls : StorageGetResolve(r)
    \/ \E r \in 1..MaxCalls : StorageGetFail(r)
    \/ \E r \in 1..MaxCalls : SendMessageSettle(r)

Spec == InitStore /\ [][NextStore]_vars

----------------------------------------------------------------------------
(* Claims *)

C1_Weight(name) ==
    IF name \in {"English 10/American History", "English 9/World History"} THEN 2000
    ELSE IF StartsWith(name, "I Service: ") \/ StartsWith(name, "IS: ") THEN 500
    ELSE 1000

C1_Boost(name, grade) ==
    IF grade \in {"A+", "A", "B+", "B", "C+", "C"}
       /\ (StartsWith(name, "AP ") \/ StartsWith(name, "AT "))
    THEN 500 ELSE 0

RECURSIVE C1_Denominator(_, _)
C1_Denominator(courses, i) ==
    IF i > Len(courses) THEN 0
    ELSE (IF courses[i].grade \in CanonicalGrades
          THEN C1_Weight(courses[i].name) ELSE 0)
         + C1_Denominator(courses, i + 1)

RECURSIVE C1_Numerator(_, _)
C1_Numerator(courses, i) ==
    IF i > Len(courses) THEN 0
    ELSE (IF courses[i].grade \in CanonicalGrades
          THEN (C1_Weight(courses[i].name)
                  * (Milli(grade_gpa[courses[i].grade])
                       + C1_Boost(courses[i].name, courses[i].grade))) \div 1000
          ELSE 0)
         + C1_Numerator(courses, i + 1)

\* numerator/denominator to 2 decimal places, halves rounded up.
C1_Expected(courses) ==
    LET den == C1_Denominator(courses, 1)
        num == C1_Numerator(courses, 1)
    IN  IF den = 0 THEN "0.00"
        ELSE FixedString((200 * num + den) \div (2 * den))

\* C1: calculate_gpa(courses) is the credit-weighted average of the courses
\* with one of the 9 letter grades, weight 2, 0.5 or 1 by course name, each
\* grade's GPA plus its boost, to 2 decimal places; "0.00" when no course
\* counts.  Every other course adds to neither total.
C1_WeightedAverage ==
    (fn = "calculate_gpa" /\ done) => ret = Str(C1_Expected(arg))

\* C1, for the course lists whose grades name no member of Object.prototype.
C1_WeightedAverageOwnGrades ==
    (fn = "calculate_gpa" /\ done
       /\ \A i \in DOMAIN arg : arg[i].grade \notin ObjectPrototypeKeys)
    => ret = Str(C1_Expected(arg))

\* C2: gradeToGPA and gradeToFP return the tabulated value for each of the 9
\* letter grades and -1 for every other string.
C2_TotalConversions ==
    /\ (fn = "gradeToGPA" /\ done) =>
          ret = IF arg \in CanonicalGrades THEN grade_gpa[arg] ELSE Num(-1000)
    /\ (fn = "gradeToFP" /\ done) =>
          ret = IF arg \in CanonicalGrades THEN grade_fp[arg] ELSE Num(-1000)

\* C2, for the strings that name no member of Object.prototype.
C2_TotalConversionsOwnKeys ==
    (fn \in {"gradeToGPA", "gradeToFP"} /\ done /\ arg \notin ObjectPrototypeKeys)
    => C2_TotalConversions

\* C9: course_boost is 0 for D+, D, F and every unrecognized grade, else 0.5
\* for a course name that starts with "AP " or "AT ", else 0.
C9_CourseBoost ==
    (fn = "course_boost" /\ done) => ret = Num(C1_Boost(arg[1], arg[2]))

\* C9, for the grades that name no member of Object.prototype.
C9_CourseBoostOwnGrades ==
    (fn = "course_boost" /\ done /\ arg[2] \notin ObjectPrototypeKeys)
    => ret = Num(C1_Boost(arg[1], arg[2]))

\* C5: extractFinalPercent returns absent or a real number, never NaN and
\* never negative infinity.
C5_AbsentOrReal ==
    (fn = "extractFinalPercent" /\ done) => (ret = Undefined \/ IsFinite(ret))

\* The letter of the band that holds r hundredths, 0 <= r < 9000, as the
\* claim lists the bands.
C8_Band(r) ==
    CASE r < 1500 -> "F" [] r >= 1500 /\ r < 2500 -> "D"
      [] r >= 2500 /\ r < 3500 -> "D+" [] r >= 3500 /\ r < 4500 -> "C"
      [] r >= 4500 /\ r < 5500 -> "C+" [] r >= 5500 /\ r < 6500 -> "B"
      [] r >= 6500 /\ r < 7500 -> "B+" [] r >= 7500 /\ r < 8500 -> "A"
      [] r >= 8500 -> "A+"

C8_InRange(r) == 0 <= r /\ r < 9000

\* The hundredths within half a hundredth of k thousandths.
C8_Rounded(k) ==
    {r \in (((k - 5) \div 10) - 1)..(((k + 5) \div 10) + 1) : Abs(10 * r - k) <= 5}

\* The hundredth strictly nearest to k thousandths, if there is one.
C8_Nearest(k) == {r \in C8_Rounded(k) : Abs(10 * r - k) < 5}

\* Every value of [0, 90), in hundredths, lies in exactly one band [lo, hi)
\* of fprange, and that band carries the claim's letter.
C8_BandsPartition ==
    \A r \in 0..8999 :
        LET hits == {i \in DOMAIN fprange :
                        100 * fprange[i].lo <= r /\ r < 100 * fprange[i].hi}
        IN  /\ Cardinality(hits) = 1
            /\ \A i \in hits : fprange[i].val = C8_Band(r)

\* C8: fpToGrade rounds to 2 decimal places and returns the letter of the one
\* band [lower, upper) that holds the rounded value, for every rounded value
\* in [0, 90): fpToGrade(87) = "A+", fpToGrade(42) = "C", and an inner
\* boundary belongs to the upper band.  (A value halfway between two
\* hundredths may round to either.)
C8_FpToGrade ==
    (fn = "fpToGrade" /\ done) =>
        /\ C8_BandsPartition
        /\ arg = Chars("87") => ret = Str("A+")
        /\ arg = Chars("42") => ret = Str("C")
        /\ arg = Chars("15") => ret = Str("D")
        /\ arg = Chars("84.9951") => ret = Str("A+")
        /\ arg = Chars("849951e-4") => ret = Str("A+")
        /\ arg = Chars("84.9949") => ret = Str("A")
        /\ \A k \in FpMillis : arg = Chars(FpString(k)) =>
              /\ \A r \in C8_Nearest(k) : C8_InRange(r) => ret = Str(C8_Band(r))
              /\ (C8_Nearest(k) = {} /\ \A r \in C8_Rounded(k) : C8_InRange(r))
                    => \E r \in C8_Rounded(k) : ret = Str(C8_Band(r))

\* 84.996 rounds up to the boundary 85.00, which belongs to A+.
C8_Witness ==
    fn = "fpToGrade" /\ done /\ arg = Chars("84.996") /\ ret = Str("A+")

\* The fields a course is compared by.
SameContent(a, b) ==
    /\ Len(a) = Len(b)
    /\ \A i \in 1..Len(a) :
          /\ a[i].name = b[i].name /\ a[i].link = b[i].link
          /\ a[i].grade = b[i].grade /\ a[i].finalPercent = b[i].finalPercent
          /\ Len(a[i].assignments) = Len(b[i].assignments)
          /\ \A j \in 1..Len(a[i].assignments) :
                [a[i].assignments[j] EXCEPT !.class = ""]
                    = [b[i].assignments[j] EXCEPT !.class = ""]

GetCalls == {i \in DOMAIN promises : promises[i].fn = "getSavedGrades"}
SaveCalls == {i \in DOMAIN promises : promises[i].fn = "saveGradesLocally"}

\* C3: a getSavedGrades(user) that reads a stored, non-empty course list is
\* fulfilled with the courses stored, in length, order and content.
C3_RoundTrip ==
    \A i \in GetCalls :
        LET key == "USERDATA_" \o promises[i].username
            result == requests[i].result
        IN  (requests[i].state = "done" /\ key \in DOMAIN result
               /\ result[key].courses # << >>)
            => /\ promises[i].state = "fulfilled"
               /\ promises[i].value.t = "array"
               /\ SameContent(promises[i].value.v, result[key].courses)

\* C4: a getSavedGrades(user) that finds no record of the user is fulfilled
\* with the empty sequence.
C4_EmptyWhenAbsent ==
    \A i \in GetCalls :
        (requests[i].state = "done"
           /\ ("USERDATA_" \o promises[i].username) \notin DOMAIN requests[i].result)
        => /\ promises[i].state = "fulfilled"
           /\ promises[i].value.t = "array"
           /\ promises[i].value.v = << >>

\* C7: when the storage fails the set call of a saveGradesLocally or the get
\* call of a getSavedGrades, the promise of that call is rejected.
C7_FailuresPropagate ==
    \A i \in SaveCalls \cup GetCalls :
        requests[i].state = "failed" => promises[i].state = "rejected"

\* The part of C7 that is about getSavedGrades.
C7_ReadFailurePropagates ==
    \A i \in GetCalls :
        requests[i].state = "failed" => promises[i].state = "rejected"

\* The user whose save the storage applied as its j-th.
AppliedUser(j) == promises[requests[applied[j]].call].username
AppliedCourses(j) == promises[requests[applied[j]].call].courses

\* C6: each saveGradesLocally issues exactly one set call, carrying both the
\* user's record and most_recent_user; after the storage applies it the
\* record is exactly {courses: the courses of that call} and
\* most_recent_user is its user; most_recent_user never names a user without
\* a record.
C6_SingleWrite ==
    /\ \A i \in SaveCalls :
          LET u == promises[i].username
              mine == {r \in DOMAIN requests : requests[r].call = i}
          IN  /\ Cardinality(mine) = 1
              /\ \A r \in mine :
                    /\ requests[r].op = "set"
                    /\ DOMAIN requests[r].data = {"USERDATA_" \o u, "most_recent_user"}
                    /\ requests[r].data["most_recent_user"] = u
                    /\ requests[r].data["USERDATA_" \o u]
                          = [courses |-> SerializeCourses(promises[i].courses)]
    /\ applied # << >> =>
          LET u == AppliedUser(Len(applied))
          IN  /\ "most_recent_user" \in DOMAIN storage
              /\ storage["most_recent_user"] = u
              /\ ("USERDATA_" \o u) \in DOMAIN storage
              /\ storage["USERDATA_" \o u]
                    = [courses |-> SerializeCourses(AppliedCourses(Len(applied)))]
    /\ applied = << >> => storage = << >>
    /\ "most_recent_user" \in DOMAIN storage =>
          ("USERDATA_" \o storage["most_recent_user"]) \in DOMAIN storage

\* A second save of alice, with other courses, has overwritten her first,
\* after a save of bob.
C6_Witness ==
    /\ Len(applied) = 3
    /\ AppliedUser(1) = "alice" /\ AppliedUser(2) = "bob" /\ AppliedUser(3) = "alice"
    /\ AppliedCourses(1) = <<Algebra, Biology>> /\ AppliedCourses(3) = <<Biology>>
    /\ storage["most_recent_user"] = "alice"

\* C10: a save changes only its user's record and most_recent_user: each
\* user's record is the courses of the last save applied for that user, and
\* there is none before one is applied.
C10_Frame ==
    /\ DOMAIN storage \subseteq {"most_recent_user"} \cup {"USERDATA_" \o v : v \in Users}
    /\ \A v \in Users :
          LET mine == {j \in DOMAIN applied : AppliedUser(j) = v}
              last == CHOOSE j \in mine : \A k \in mine : k <= j
          IN  IF mine = {} THEN ("USERDATA_" \o v) \notin DOMAIN storage
              ELSE /\ ("USERDATA_" \o v) \in DOMAIN storage
                   /\ storage["USERDATA_" \o v]
                         = [courses |-> SerializeCourses(AppliedCourses(last))]

\* Saves of bob applied after alice's have left her record as she saved it.
C10_Witness ==
    /\ Len(applied) = 3
    /\ AppliedUser(1) = "alice" /\ AppliedUser(2) = "bob" /\ AppliedUser(3) = "bob"
    /\ AppliedCourses(1) = <<Algebra, Biology>>
    /\ storage["USERDATA_alice"] = [courses |-> SerializeCourses(<<Algebra, Biology>>)]
    /\ storage["most_recent_user"] = "bob"

====
